---------------------------- MODULE Spec2Model ----------------------------
(***************************************************************************)
(* Model of the music playlist server (src/backend/server.js): the Song    *)
(* catalog, the GridFS bucket "uploads" and the upload, stream and delete  *)
(* request handlers, each request advancing one await at a time.           *)
(***************************************************************************)
EXTENDS Integers, Sequences, FiniteSets, TLC

\* ------------------------------------------------------------------ bounds
\* Number of request slots (requests the server handles, possibly at once).
MaxReqs == 2
\* Number of distinct values shortid.generate() can return in the model.
NumCodes == 2
\* Number of chunks the download stream pushes for one stored object.
FileChunks == 2
\* Largest number of seconds formatDuration is applied to.
MaxSeconds == 700
\* Largest number of documents in the collection a list request reads.
MaxSongs == 2
\* Number of distinct createdAt values of those documents.
MaxClock == 2
\* Largest number of bytes in an uploaded file part.
MaxBytes == 3
\* Bytes per chunk of the bucket (the driver's chunkSizeBytes, scaled down).
ChunkSizeBytes == 2
\* Number of distinct songs the page ever deals with.
MaxTracks == 2
\* Number of gestures (clicks, submits) the user makes on the page.
MaxClicks == 4

Reqs == 1..MaxReqs
Codes == 1..NumCodes

\* ------------------------------------------------------------ value space
NoFile == 0          \* req.file undefined / Song.fileId absent
LegacyId == 0        \* _id of a row that was in the collection at start-up
LegacyFile == -2     \* id of the object of that row
BadId == -1          \* a :songId that is not a valid ObjectId string
NoSong == 0          \* currentSong null
Tracks == 1..MaxTracks
\* no handleDelete in flight for a song
NoDelete == [songs |-> {}, current |-> NoSong, inFlight |-> FALSE]
\* audioRef.current null
NoAudio == [song |-> NoSong, paused |-> TRUE, net |-> "none", listening |-> FALSE]
\* a JavaScript number: an integer, or NaN
Num(v) == [nan |-> FALSE, v |-> v]
NaN == [nan |-> TRUE, v |-> 0]


VARIABLES
    gfs,        \* TRUE once conn.once('open') has built the GridFSBucket
    files,      \* ids of the objects committed in the bucket (uploads.files)
    songs,      \* the rows of the Song collection
    pc,         \* per request: the await the handler is suspended at
    kind,       \* per request: "upload", "stream", "delete" or "none"
    param,      \* per request: req.params.songId
    file,       \* per request: req.file.id, NoFile when req.file is undefined
    doc,        \* per request: the Song document the handler holds
    status,     \* per request: status of the response started, 0 = none
    ended,      \* per request: TRUE once the response has been ended
    sent,       \* per request: chunks of audio written to the response
    attempts,   \* per request: number of Song inserts tried
    fault,      \* per request: the set of failures it has met
    seconds,    \* formatDuration: its argument
    formatted,  \* formatDuration: the string returned, <<>> before the call
    collection, \* list: the Song documents in insertion order
    query,      \* list: req.query.search, <<>> when absent
    result,     \* list: the documents answered, as positions in collection
    listStatus, \* list: status of the response, 0 = none
    uploadsFiles,  \* bucket: the documents of uploads.files
    uploadsChunks, \* bucket: the documents of uploads.chunks
    body,       \* bucket: the bytes of the file part being uploaded
    upPc,       \* bucket: where the upload is
    written,    \* bucket: chunks the upload has written
    songFileId, \* bucket: fileId of the Song row, NoFile while no row
    rdPc,       \* bucket: where the stream request is
    rdFileId,   \* bucket: song.fileId the stream request has read
    rdLength,   \* bucket: length of the files document it opened
    rdN,        \* bucket: chunks it has read
    rdStatus,   \* bucket: status of its response, 0 = none
    rdEnded,    \* bucket: TRUE once its response has been ended
    rdFault,    \* bucket: TRUE once its download stream has failed
    out,        \* bucket: the bytes written to its response
    delPc,      \* bucket: where the delete request is
    delStatus,  \* bucket: status of its response, 0 = none
    currentSong,   \* App: _id of the selected song, NoSong for null
    shownSongs,    \* SongList: _ids of its songs state
    fetching,      \* SongList: TRUE while a fetchSongs call is in flight
    pendingDelete, \* SongList: per song, what a handleDelete in flight holds
    catalog,       \* _ids of the Song rows on the server
    created,       \* number of Song rows ever created
    isPlaying,     \* AudioPlayer: its isPlaying state
    loading,       \* AudioPlayer: its loading state
    audioRef,      \* AudioPlayer: the element in audioRef.current
    uploading,     \* FileUpload: its uploading state
    uploadStatus,  \* FileUpload: its status message
    timers,        \* FileUpload: status-clearing timeouts not yet fired
    clicks         \* number of user gestures so far

\* the state of the server and the state of the client-side helpers
serverVars == <<gfs, files, songs, pc, kind, param, file, doc, status, ended,
                sent, attempts, fault>>
clientVars == <<seconds, formatted>>
listVars == <<collection, query, result, listStatus>>
bucketVars == <<uploadsFiles, uploadsChunks, body, upPc, written, songFileId,
                rdPc, rdFileId, rdLength, rdN, rdStatus, rdEnded, rdFault,
                out, delPc, delStatus>>
uiVars == <<currentSong, shownSongs, fetching, pendingDelete, catalog, created,
            isPlaying, loading, audioRef, uploading, uploadStatus, timers,
            clicks>>
vars == <<serverVars, clientVars, listVars, bucketVars, uiVars>>

NoDoc == [id |-> BadId, title |-> "", artist |-> "", album |-> "",
          duration |-> Num(0), songcode |-> 0, fileId |-> NoFile]

\* -------------------------------------------------------- pure functions
\* String.prototype.startsWith on a string held as a sequence of characters.
StartsWith(s, p) ==
    /\ Len(s) >= Len(p)
    /\ SubSeq(s, 1, Len(p)) = p

AudioPrefix == <<"a", "u", "d", "i", "o", "/">>

\* fileFilter: accept exactly the parts whose mimetype starts with 'audio/'.
fileFilter(mimetype) == StartsWith(mimetype, AudioPrefix)

Digits == <<"0", "1", "2", "3", "4", "5", "6", "7", "8", "9">>
IsDigit(c) == \E i \in 1..10 : Digits[i] = c
DigitVal(c) == (CHOOSE i \in 1..10 : Digits[i] = c) - 1

RECURSIVE ParseDigits(_, _, _)
\* value of the longest digit prefix of s from position i, acc so far
ParseDigits(s, i, acc) ==
    IF i > Len(s) \/ ~IsDigit(s[i]) THEN acc
    ELSE ParseDigits(s, i + 1, acc * 10 + DigitVal(s[i]))

\* parseInt(string): optional sign, then the longest run of digits; NaN when
\* there is no digit at the start.
parseInt(s) ==
    LET neg == Len(s) >= 1 /\ s[1] = "-"
        start == IF Len(s) >= 1 /\ s[1] \in {"-", "+"} THEN 2 ELSE 1
    IN  IF start > Len(s) \/ ~IsDigit(s[start]) THEN NaN
        ELSE IF neg THEN Num(0 - ParseDigits(s, start, 0))
        ELSE Num(ParseDigits(s, start, 0))

\* JavaScript truthiness of a form field: absent and empty are both falsy.
\* title, artist and album are held as strings, duration as a sequence of
\* characters.
Truthy(s) == s # ""
TruthySeq(s) == Len(s) > 0

\* limits.fileSize
FileSizeLimit == 50 * 1024 * 1024

\* a handler that does not test the path parameter
isValidSkipped(p) == TRUE

\* ObjectId.isValid on the path parameter
isValid(p) == p # BadId

\* a storage engine that hands every upload the same object id
NewFileIdReused(r) == 1

\* new ObjectId(): ids are fresh per request
NewFileId(r) == r
NewSongId(r) == r

\* ---------------------------------------------------------- input spaces
MimeTypes == { <<"a","u","d","i","o","/","m","p","3">>,
               <<"i","m","a","g","e","/","p","n","g">>,
               <<"a","u","d","i","o">> }
Titles == {"", "Blue Moon"}
Artists == {"", "Miles"}
Albums == {"", "Kind"}
Durations == { <<>>, <<"1","8","0">>, <<"a","b","c">>, <<"0">> }
Sizes == {1, FileSizeLimit, FileSizeLimit + 1}

\* a row left in the collection by an earlier run, with its object in the
\* bucket, or without a fileId (the schema does not require one)
LegacyRow(fileId) ==
    [id |-> LegacyId, title |-> "Sun", artist |-> "Quartet",
     album |-> "Unknown Album", duration |-> Num(59), songcode |-> 1,
     fileId |-> fileId]

\* ------------------------------------------------------------------ Init
\* the page not yet mounted
UiAtRest ==
    /\ currentSong = NoSong /\ shownSongs = {} /\ fetching = FALSE
    /\ pendingDelete = [s \in Tracks |-> NoDelete]
    /\ catalog = {} /\ created = 0
    /\ isPlaying = FALSE /\ loading = FALSE /\ audioRef = NoAudio
    /\ uploading = FALSE /\ uploadStatus = "" /\ timers = 0 /\ clicks = 0

\* the bucket with no object, no upload and no reader
BucketAtRest ==
    /\ uploadsFiles = {} /\ uploadsChunks = {}
    /\ body = <<>> /\ upPc = "idle" /\ written = 0
    /\ songFileId = NoFile
    /\ rdPc = "idle" /\ rdFileId = NoFile /\ rdLength = 0 /\ rdN = 0
    /\ rdStatus = 0 /\ rdEnded = FALSE /\ rdFault = FALSE /\ out = <<>>
    /\ delPc = "idle" /\ delStatus = 0

Init ==
    /\ gfs = FALSE
    /\ \E start \in {"empty", "nofile", "song"} :
         /\ songs = CASE start = "empty" -> {}
                      [] start = "nofile" -> {LegacyRow(NoFile)}
                      [] start = "song" -> {LegacyRow(LegacyFile)}
         /\ files = IF start = "song" THEN {LegacyFile} ELSE {}
    /\ pc = [r \in Reqs |-> "idle"]
    /\ kind = [r \in Reqs |-> "none"]
    /\ param = [r \in Reqs |-> BadId]
    /\ file = [r \in Reqs |-> NoFile]
    /\ doc = [r \in Reqs |-> NoDoc]
    /\ status = [r \in Reqs |-> 0]
    /\ ended = [r \in Reqs |-> FALSE]
    /\ sent = [r \in Reqs |-> 0]
    /\ attempts = [r \in Reqs |-> 0]
    /\ fault = [r \in Reqs |-> {}]
    /\ seconds = 0
    /\ formatted = <<>>
    /\ collection = <<>> /\ query = <<>> /\ result = <<>> /\ listStatus = 0
    /\ BucketAtRest
    /\ UiAtRest

\* ------------------------------------------------------------ start-up
\* conn.once('open'): the bucket handle is created
ConnOpen ==
    /\ ~gfs
    /\ gfs' = TRUE
    /\ UNCHANGED <<files, songs, pc, kind, param, file, doc, status, ended,
                   sent, attempts, fault>>
    /\ UNCHANGED <<clientVars, listVars, bucketVars, uiVars>>

ConnectedAlways == TRUE

\* mongoose.connect with command buffering: a model operation issued before
\* the connection is open is held back, and its result reaches the handler
\* after the 'open' listeners have run, that is once gfs is set
Connected == gfs

\* res.status(code).json(...): start and end the response of request r
Respond(r, code) ==
    /\ status' = [status EXCEPT ![r] = code]
    /\ ended' = [ended EXCEPT ![r] = TRUE]

\* ids a client may put in the path: a malformed one, the id of the row of
\* an earlier run (the id of no row when there is none), the id an upload
\* request gives its song
Params == {BadId, LegacyId} \cup {NewSongId(q) : q \in {u \in Reqs : kind[u] = "upload"}}

\* A request arrives.  Slots are used in order.  Database operations are
\* buffered by mongoose until the connection is open, so a handler's first
\* await resolves only once gfs is set.
Arrive(r) ==
    /\ pc[r] = "idle"
    /\ \A q \in Reqs : q < r => pc[q] # "idle"
    /\ \E k \in {"upload", "stream", "delete"} :
         /\ kind' = [kind EXCEPT ![r] = k]
         /\ IF k = "upload"
            THEN /\ pc' = [pc EXCEPT ![r] = "multer"]
                 /\ UNCHANGED param
            ELSE /\ pc' = [pc EXCEPT ![r] = "find"]
                 /\ \E p \in Params : param' = [param EXCEPT ![r] = p]
    /\ UNCHANGED <<gfs, files, songs, file, doc, status, ended, sent,
                   attempts, fault>>
    /\ UNCHANGED <<clientVars, listVars, bucketVars, uiVars>>

\* record a failure of request r
Fail(r, what) == fault' = [fault EXCEPT ![r] = @ \cup {what}]

\* ------------------------------------------------------------- catalog
\* Song.findById
findById(rows, id) == {s \in rows : s.id = id}

\* a collection without the unique index
DuplicateKeyNoIndex(rows, d) == FALSE

\* the unique index on songcode: E11000 when a row already has the code
DuplicateKey(rows, d) == \E s \in rows : s.songcode = d.songcode

\* the Number cast of the schema rejects NaN
CastOk(d) == ~d.duration.nan

\* Song.findByIdAndDelete
findByIdAndDelete(rows, id) == {s \in rows : s.id # id}

\* ------------------------------------------------------------- upload
\* upload.single('audioFile'): multer parses the multipart body and the
\* GridFS storage engine writes the file part to the bucket before the
\* route handler runs.  A part refused by fileFilter, a part over
\* limits.fileSize and a storage failure are passed to the error
\* middleware (500) and leave no object; the storage engine has its own
\* connection and does not wait for the mongoose one.
UploadMulter(r) ==
    /\ pc[r] = "multer"
    /\ \E hasFile \in BOOLEAN, mt \in MimeTypes, size \in Sizes,
          ioOk \in BOOLEAN :
         IF ~hasFile
         THEN /\ pc' = [pc EXCEPT ![r] = "handler"]
              /\ UNCHANGED <<files, file, status, ended, fault>>
         ELSE IF ~fileFilter(mt)
         THEN /\ Respond(r, 500) /\ Fail(r, "filter")
              /\ pc' = [pc EXCEPT ![r] = "done"]
              /\ UNCHANGED <<files, file>>
         ELSE IF size > FileSizeLimit
         THEN /\ Respond(r, 500) /\ Fail(r, "limit")
              /\ pc' = [pc EXCEPT ![r] = "done"]
              /\ UNCHANGED <<files, file>>
         ELSE IF ~ioOk
         THEN /\ Respond(r, 500) /\ Fail(r, "storage")
              /\ pc' = [pc EXCEPT ![r] = "done"]
              /\ UNCHANGED <<files, file>>
         ELSE /\ files' = files \cup {NewFileId(r)}
              /\ file' = [file EXCEPT ![r] = NewFileId(r)]
              /\ pc' = [pc EXCEPT ![r] = "handler"]
              /\ UNCHANGED <<status, ended, fault>>
    /\ UNCHANGED <<gfs, songs, kind, param, doc, sent, attempts>>
    /\ UNCHANGED <<clientVars, listVars, bucketVars, uiVars>>

\* the Song document built from the form fields
NewSong(r, title, artist, album, duration, code) ==
    [id |-> NewSongId(r), title |-> title, artist |-> artist,
     album |-> IF Truthy(album) THEN album ELSE "Unknown Album",
     duration |-> parseInt(duration), songcode |-> code,
     fileId |-> file[r]]

\* the required-field test of the handler
MissingFields(title, artist, duration) ==
    ~Truthy(title) \/ ~Truthy(artist) \/ ~TruthySeq(duration)

\* the route handler up to the call of song.save()
UploadHandler(r) ==
    /\ pc[r] = "handler"
    /\ IF file[r] = NoFile
       THEN /\ Respond(r, 400) /\ Fail(r, "nofile")
            /\ pc' = [pc EXCEPT ![r] = "done"]
            /\ UNCHANGED doc
       ELSE \E title \in Titles, artist \in Artists, album \in Albums,
               duration \in Durations, code \in Codes :
              IF MissingFields(title, artist, duration)
              THEN /\ Respond(r, 400) /\ Fail(r, "fields")
                   /\ pc' = [pc EXCEPT ![r] = "done"]
                   /\ UNCHANGED doc
              ELSE /\ doc' = [doc EXCEPT ![r] =
                                NewSong(r, title, artist, album, duration, code)]
                   /\ pc' = [pc EXCEPT ![r] = "save"]
                   /\ UNCHANGED <<status, ended, fault>>
    /\ UNCHANGED <<gfs, files, songs, kind, param, file, sent, attempts>>
    /\ UNCHANGED <<clientVars, listVars, bucketVars, uiVars>>

\* what the handler does with the committed object when the insert fails
AfterInsertFailure(fs, r) == fs

\* a handler that regenerates the code and saves again on E11000
UploadSaveRetry(r) ==
    /\ pc[r] = "save"
    /\ attempts' = [attempts EXCEPT ![r] = @ + 1]
    /\ \E dbOk \in BOOLEAN :
         IF ~CastOk(doc[r]) \/ ~dbOk
         THEN /\ Respond(r, 500) /\ Fail(r, "catalog")
              /\ pc' = [pc EXCEPT ![r] = "done"]
              /\ doc' = [doc EXCEPT ![r] = NoDoc]
              /\ UNCHANGED <<songs, files>>
         ELSE /\ Connected
              /\ IF DuplicateKey(songs, doc[r])
                 THEN IF attempts[r] + 1 < 3
                      THEN /\ \E c \in Codes :
                                doc' = [doc EXCEPT ![r].songcode = c]
                           /\ UNCHANGED <<pc, status, ended, fault, songs,
                                          files>>
                      ELSE /\ Respond(r, 400) /\ Fail(r, "dup")
                           /\ pc' = [pc EXCEPT ![r] = "done"]
                           /\ doc' = [doc EXCEPT ![r] = NoDoc]
                           /\ UNCHANGED <<songs, files>>
                 ELSE /\ songs' = songs \cup {doc[r]}
                      /\ Respond(r, 200)
                      /\ pc' = [pc EXCEPT ![r] = "done"]
                      /\ doc' = [doc EXCEPT ![r] = NoDoc]
                      /\ UNCHANGED <<files, fault>>
    /\ UNCHANGED <<gfs, kind, param, file, sent>>
    /\ UNCHANGED <<clientVars, listVars, bucketVars, uiVars>>

\* await song.save() and the response that follows it
UploadSave(r) ==
    /\ pc[r] = "save"
    /\ attempts' = [attempts EXCEPT ![r] = @ + 1]
    /\ pc' = [pc EXCEPT ![r] = "done"]
    /\ \E dbOk \in BOOLEAN :
         IF ~CastOk(doc[r])
         THEN /\ Respond(r, 500) /\ Fail(r, "invalid")
              /\ files' = AfterInsertFailure(files, r)
              /\ UNCHANGED songs
         ELSE IF ~dbOk
         THEN /\ Respond(r, 500) /\ Fail(r, "catalog")
              /\ files' = AfterInsertFailure(files, r)
              /\ UNCHANGED songs
         ELSE /\ Connected
              /\ IF DuplicateKey(songs, doc[r])
                 THEN /\ Respond(r, 400) /\ Fail(r, "dup")
                      /\ files' = AfterInsertFailure(files, r)
                      /\ UNCHANGED songs
                 ELSE /\ songs' = songs \cup {doc[r]}
                      /\ Respond(r, 200)
                      /\ UNCHANGED <<files, fault>>
    /\ doc' = [doc EXCEPT ![r] = NoDoc]
    /\ UNCHANGED <<gfs, kind, param, file, sent>>
    /\ UNCHANGED <<clientVars, listVars, bucketVars, uiVars>>

\* ------------------------------------------------------------- delete
\* the handler up to the resolution of Song.findById
DeleteFind(r) ==
    /\ pc[r] = "find" /\ kind[r] = "delete"
    /\ IF ~isValid(param[r])
       THEN /\ Respond(r, 400) /\ Fail(r, "badid")
            /\ pc' = [pc EXCEPT ![r] = "done"]
            /\ UNCHANGED doc
       ELSE \E dbOk \in BOOLEAN :
              IF ~dbOk
              THEN /\ Respond(r, 500) /\ Fail(r, "catalog")
                   /\ pc' = [pc EXCEPT ![r] = "done"]
                   /\ UNCHANGED doc
              ELSE /\ Connected
                   /\ IF findById(songs, param[r]) = {}
                      THEN /\ Respond(r, 404) /\ Fail(r, "nosong")
                           /\ pc' = [pc EXCEPT ![r] = "done"]
                           /\ UNCHANGED doc
                      ELSE \E s \in findById(songs, param[r]) :
                             /\ doc' = [doc EXCEPT ![r] = s]
                             /\ pc' = [pc EXCEPT ![r] =
                                         IF s.fileId # NoFile THEN "gfsdel"
                                         ELSE "rowdel"]
                             /\ UNCHANGED <<status, ended, fault>>
    /\ UNCHANGED <<gfs, files, songs, kind, param, file, sent, attempts>>
    /\ UNCHANGED <<clientVars, listVars, bucketVars, uiVars>>

\* GridFSBucket.delete: removes the object, rejects when there is none
BucketDelete(fs, id) == fs \ {id}

\* a handler whose gfs.delete is not wrapped in its own try/catch
DeleteFileFatal(r) ==
    /\ pc[r] = "gfsdel"
    /\ \E ioOk \in BOOLEAN :
         IF gfs /\ ioOk /\ doc[r].fileId \in files
         THEN /\ files' = files \ {doc[r].fileId}
              /\ pc' = [pc EXCEPT ![r] = "rowdel"]
              /\ UNCHANGED <<fault, status, ended, doc>>
         ELSE /\ Fail(r, "gfs")
              /\ Respond(r, 500)
              /\ pc' = [pc EXCEPT ![r] = "done"]
              /\ doc' = [doc EXCEPT ![r] = NoDoc]
              /\ UNCHANGED files
    /\ UNCHANGED <<gfs, songs, kind, param, file, sent, attempts>>
    /\ UNCHANGED <<clientVars, listVars, bucketVars, uiVars>>

\* await gfs.delete(song.fileId) inside its own try/catch: a rejection
\* (no such object: "gfs"; storage failure or gfs undefined: "gfs" and "io")
\* is only logged
DeleteFile(r) ==
    /\ pc[r] = "gfsdel"
    /\ \E ioOk \in BOOLEAN :
         IF gfs /\ ioOk /\ doc[r].fileId \in files
         THEN /\ files' = BucketDelete(files, doc[r].fileId)
              /\ UNCHANGED fault
         ELSE /\ fault' = [fault EXCEPT ![r] = @ \cup
                            (IF gfs /\ ioOk THEN {"gfs"} ELSE {"gfs", "io"})]
              /\ UNCHANGED files
    /\ pc' = [pc EXCEPT ![r] = "rowdel"]
    /\ UNCHANGED <<gfs, songs, kind, param, file, doc, status, ended, sent,
                   attempts>>
    /\ UNCHANGED <<clientVars, listVars, bucketVars, uiVars>>

\* await Song.findByIdAndDelete(songId) and the response
DeleteRow(r) ==
    /\ pc[r] = "rowdel"
    /\ pc' = [pc EXCEPT ![r] = "done"]
    /\ \E dbOk \in BOOLEAN :
         IF ~dbOk
         THEN /\ Respond(r, 500) /\ Fail(r, "catalog")
              /\ UNCHANGED songs
         ELSE /\ Connected
              /\ songs' = findByIdAndDelete(songs, param[r])
              /\ Respond(r, 200)
              /\ UNCHANGED fault
    /\ doc' = [doc EXCEPT ![r] = NoDoc]
    /\ UNCHANGED <<gfs, files, kind, param, file, sent, attempts>>
    /\ UNCHANGED <<clientVars, listVars, bucketVars, uiVars>>

\* ------------------------------------------------------------- stream
\* the handler up to res.set(...): the headers are set, not yet sent
StreamFind(r) ==
    /\ pc[r] = "find" /\ kind[r] = "stream"
    /\ IF ~isValid(param[r])
       THEN /\ Respond(r, 400) /\ Fail(r, "badid")
            /\ pc' = [pc EXCEPT ![r] = "done"]
            /\ UNCHANGED doc
       ELSE \E dbOk \in BOOLEAN :
              IF ~dbOk
              THEN /\ Respond(r, 500) /\ Fail(r, "catalog")
                   /\ pc' = [pc EXCEPT ![r] = "done"]
                   /\ UNCHANGED doc
              ELSE /\ Connected
                   /\ IF \A s \in findById(songs, param[r]) : s.fileId = NoFile
                      THEN /\ Respond(r, 404) /\ Fail(r, "nosong")
                           /\ pc' = [pc EXCEPT ![r] = "done"]
                           /\ UNCHANGED doc
                      ELSE \E s \in findById(songs, param[r]) :
                             /\ doc' = [doc EXCEPT ![r] = s]
                             /\ pc' = [pc EXCEPT ![r] = "open"]
                             /\ UNCHANGED <<status, ended, fault>>
    /\ UNCHANGED <<gfs, files, songs, kind, param, file, sent, attempts>>
    /\ UNCHANGED <<clientVars, listVars, bucketVars, uiVars>>

\* a download stream without an 'error' listener
OnStreamErrorUnhandled(r) == UNCHANGED <<status, ended>>

\* the 'error' listener of the download stream: an error status and body
\* are written only while no header has been sent; nothing else is done
OnStreamError(r) ==
    IF status[r] = 0
    THEN Respond(r, 404)
    ELSE UNCHANGED <<status, ended>>

\* gfs.openDownloadStream(song.fileId) and pipe(res) up to the first chunk:
\* the stream looks the object up on its first read
StreamOpen(r) ==
    /\ pc[r] = "open"
    /\ \E ioOk \in BOOLEAN :
         IF ~gfs
         THEN /\ Respond(r, 500) /\ Fail(r, "nogfs")
              /\ pc' = [pc EXCEPT ![r] = "done"]
              /\ doc' = [doc EXCEPT ![r] = NoDoc]
              /\ UNCHANGED sent
         ELSE IF ioOk /\ doc[r].fileId \in files
         THEN /\ status' = [status EXCEPT ![r] = 200]
              /\ sent' = [sent EXCEPT ![r] = 1]
              /\ pc' = [pc EXCEPT ![r] = "pipe"]
              /\ UNCHANGED <<ended, fault, doc>>
         ELSE /\ OnStreamError(r) /\ Fail(r, "open")
              /\ pc' = [pc EXCEPT ![r] = "done"]
              /\ doc' = [doc EXCEPT ![r] = NoDoc]
              /\ UNCHANGED sent
    /\ UNCHANGED <<gfs, files, songs, kind, param, file, attempts>>
    /\ UNCHANGED <<clientVars, listVars, bucketVars, uiVars>>

\* pipe(res) after the first chunk: the next chunk is written, or the
\* source ends and pipe ends the response, or the source fails
StreamPipe(r) ==
    /\ pc[r] = "pipe"
    /\ IF sent[r] = FileChunks
       THEN /\ ended' = [ended EXCEPT ![r] = TRUE]
            /\ pc' = [pc EXCEPT ![r] = "done"]
            /\ doc' = [doc EXCEPT ![r] = NoDoc]
            /\ UNCHANGED <<status, sent, fault>>
       ELSE \E ioOk \in BOOLEAN :
              IF ioOk /\ doc[r].fileId \in files
              THEN /\ sent' = [sent EXCEPT ![r] = @ + 1]
                   /\ UNCHANGED <<status, ended, fault, pc, doc>>
              ELSE /\ OnStreamError(r) /\ Fail(r, "midstream")
                   /\ pc' = [pc EXCEPT ![r] = "done"]
                   /\ doc' = [doc EXCEPT ![r] = NoDoc]
                   /\ UNCHANGED sent
    /\ UNCHANGED <<gfs, files, songs, kind, param, file, attempts>>
    /\ UNCHANGED <<clientVars, listVars, bucketVars, uiVars>>

\* ------------------------------------------------------------------ Next
Next ==
    \/ ConnOpen
    \/ \E r \in Reqs : Arrive(r)
    \/ \E r \in Reqs : UploadMulter(r)
    \/ \E r \in Reqs : UploadHandler(r)
    \/ \E r \in Reqs : UploadSave(r)
    \/ \E r \in Reqs : DeleteFind(r)
    \/ \E r \in Reqs : DeleteFile(r)
    \/ \E r \in Reqs : DeleteRow(r)
    \/ \E r \in Reqs : StreamFind(r)
    \/ \E r \in Reqs : StreamOpen(r)
    \/ \E r \in Reqs : StreamPipe(r)

Spec == Init /\ [][Next]_vars

\* ----------------------------------------------------- formatDuration
\* Number.prototype.toString of a non-negative integer
RECURSIVE toString(_)
toString(n) ==
    IF n < 10 THEN <<Digits[n + 1]>>
    ELSE toString(n \div 10) \o <<Digits[(n % 10) + 1]>>

\* a padStart that pads nothing
padStartNone(str, len, c) == str

\* String.prototype.padStart with a one-character pad string
RECURSIVE padStart(_, _, _)
padStart(str, len, c) ==
    IF Len(str) >= len THEN str ELSE padStart(<<c>> \o str, len, c)

\* formatDuration of the song list
formatDuration(secs) ==
    LET minutes == secs \div 60
        remainingSeconds == secs % 60
    IN  toString(minutes) \o <<":">> \o padStart(toString(remainingSeconds), 2, "0")

\* no request in flight
RequestsAtRest ==
    /\ pc = [r \in Reqs |-> "idle"]
    /\ kind = [r \in Reqs |-> "none"]
    /\ param = [r \in Reqs |-> BadId]
    /\ file = [r \in Reqs |-> NoFile]
    /\ doc = [r \in Reqs |-> NoDoc]
    /\ status = [r \in Reqs |-> 0]
    /\ ended = [r \in Reqs |-> FALSE]
    /\ sent = [r \in Reqs |-> 0]
    /\ attempts = [r \in Reqs |-> 0]
    /\ fault = [r \in Reqs |-> {}]

\* the server at rest: no request, empty collection and bucket
ServerAtRest == gfs = FALSE /\ files = {} /\ songs = {} /\ RequestsAtRest

\* a song list row is rendered: formatDuration(song.duration)
FormatInit ==
    /\ ServerAtRest
    /\ seconds \in 0..MaxSeconds
    /\ formatted = <<>>
    /\ collection = <<>> /\ query = <<>> /\ result = <<>> /\ listStatus = 0
    /\ BucketAtRest
    /\ UiAtRest

RenderDuration ==
    /\ formatted = <<>>
    /\ formatted' = formatDuration(seconds)
    /\ UNCHANGED <<seconds, serverVars, listVars, bucketVars, uiVars>>

FormatNext == RenderDuration

FormatSpec == FormatInit /\ [][FormatNext]_vars

\* ---------------------------------------------------------------- list
\* case folding of the 'i' flag, for the letters the inputs use
UpperCase == <<"B", "E", "K", "L", "M", "N", "S", "U">>
LowerCase == <<"b", "e", "k", "l", "m", "n", "s", "u">>
Fold(c) ==
    IF \E i \in 1..Len(UpperCase) : UpperCase[i] = c
    THEN LowerCase[CHOOSE i \in 1..Len(UpperCase) : UpperCase[i] = c]
    ELSE c

\* new RegExp(search, 'i') throws a SyntaxError on an unbalanced parenthesis
RegExpValid(pattern) == \A i \in 1..Len(pattern) : pattern[i] # "("

\* { field: new RegExp(search, 'i') }: the pattern matches somewhere in the
\* string; '.' matches any character, a letter matches itself in either case
RegExpTest(pattern, str) ==
    \E k \in 0..(Len(str) - Len(pattern)) :
        \A i \in 1..Len(pattern) :
            pattern[i] = "." \/ Fold(pattern[i]) = Fold(str[k + i])

\* the filter of Song.find: no search, or $or over title, artist and album
Matches(search, song) ==
    \/ ~TruthySeq(search)
    \/ RegExpTest(search, song.title)
    \/ RegExpTest(search, song.artist)
    \/ RegExpTest(search, song.album)

\* sort({ createdAt: -1 }): the matching documents, later createdAt first;
\* the order of documents with equal createdAt is not specified
SortedByCreatedAt(docs, picked) ==
    {order \in [1..Cardinality(picked) -> picked] :
        /\ \A i, j \in DOMAIN order : i # j => order[i] # order[j]
        /\ \A i, j \in DOMAIN order :
              i < j => docs[order[i]].createdAt >= docs[order[j]].createdAt}

ListTitles == { <<"B","l","u","e">>, <<"S","u","n">> }
ListArtists == { <<"M","i","l","e","s">> }
ListAlbums == { <<"K","i","n","d">>, <<"M","o","o","n">> }
ListDocs == [title : ListTitles, artist : ListArtists, album : ListAlbums,
             createdAt : 1..MaxClock]
Searches == { <<>>, <<"b","l","u","e">>, <<"M","O","O","N">>, <<"l",".","e">>,
              <<".">>, <<"(">>, <<"x">> }

ListInit ==
    /\ ServerAtRest
    /\ seconds = 0 /\ formatted = <<>>
    /\ \E n \in 0..MaxSongs : collection \in [1..n -> ListDocs]
    /\ query \in Searches
    /\ result = <<>>
    /\ listStatus = 0
    /\ BucketAtRest
    /\ UiAtRest

\* app.get('/api/songs')
ListSongs ==
    /\ listStatus = 0
    /\ \E dbOk \in BOOLEAN :
         IF (TruthySeq(query) /\ ~RegExpValid(query)) \/ ~dbOk
         THEN /\ listStatus' = 500
              /\ UNCHANGED result
         ELSE /\ listStatus' = 200
              /\ result' \in SortedByCreatedAt(collection,
                     {i \in DOMAIN collection : Matches(query, collection[i])})
    /\ UNCHANGED <<collection, query, serverVars, clientVars, bucketVars, uiVars>>

ListNext == ListSongs

ListSpec == ListInit /\ [][ListNext]_vars

\* -------------------------------------------------------------- bucket
\* One upload, one stream request and one delete request followed through
\* the two collections of the bucket 'uploads', chunk by chunk.  The
\* connection is open throughout; requests before 'open' are in Spec.
Bytes == 0..1
Bodies == UNION {[1..n -> Bytes] : n \in 0..MaxBytes}

\* the id GridFsStorage gives the object of the one upload
BucketFileId == NewFileId(1)

\* number of chunks of an object of len bytes
ChunkCount(len) == (len + ChunkSizeBytes - 1) \div ChunkSizeBytes

\* the bytes of chunk n of the byte sequence b
ChunkData(b, n) ==
    LET last == IF (n + 1) * ChunkSizeBytes < Len(b)
                THEN (n + 1) * ChunkSizeBytes ELSE Len(b)
    IN  SubSeq(b, n * ChunkSizeBytes + 1, last)

ChunksOf(id) == {c \in uploadsChunks : c.files_id = id}

BucketInit ==
    /\ gfs = TRUE /\ files = {} /\ songs = {} /\ RequestsAtRest
    /\ seconds = 0 /\ formatted = <<>>
    /\ collection = <<>> /\ query = <<>> /\ result = <<>> /\ listStatus = 0
    /\ uploadsFiles = {} /\ uploadsChunks = {}
    /\ body \in Bodies /\ upPc = "streaming" /\ written = 0
    /\ songFileId = NoFile
    /\ rdPc = "idle" /\ rdFileId = NoFile /\ rdLength = 0 /\ rdN = 0
    /\ rdStatus = 0 /\ rdEnded = FALSE /\ rdFault = FALSE /\ out = <<>>
    /\ delPc = "idle" /\ delStatus = 0
    /\ UiAtRest

\* the storage engine writes the next chunk of the incoming file part
WriteChunk ==
    /\ upPc = "streaming"
    /\ written < ChunkCount(Len(body))
    /\ uploadsChunks' = uploadsChunks \cup
           {[files_id |-> BucketFileId, n |-> written,
             data |-> ChunkData(body, written)]}
    /\ written' = written + 1
    /\ UNCHANGED <<uploadsFiles, body, upPc, songFileId, rdPc, rdFileId,
                   rdLength, rdN, rdStatus, rdEnded, rdFault, out, delPc,
                   delStatus>>
    /\ UNCHANGED <<serverVars, clientVars, listVars, uiVars>>

\* the upload dies while streaming (the client disconnects, a write fails,
\* the process is killed): no files document is written; the chunks
\* written so far are removed or stay behind
KillUpload ==
    /\ upPc = "streaming"
    /\ upPc' = "killed"
    /\ \E cleanup \in BOOLEAN :
         uploadsChunks' = IF cleanup
                          THEN uploadsChunks \ ChunksOf(BucketFileId)
                          ELSE uploadsChunks
    /\ UNCHANGED <<uploadsFiles, body, written, songFileId, rdPc, rdFileId,
                   rdLength, rdN, rdStatus, rdEnded, rdFault, out, delPc,
                   delStatus>>
    /\ UNCHANGED <<serverVars, clientVars, listVars, uiVars>>

CommitAnyTime(b, w) == TRUE

\* the upload stream ends once the last chunk has been written
CommitReady(b, w) == w = ChunkCount(Len(b))

\* the end of the upload stream: the files document is inserted and multer
\* sets req.file
CommitFile ==
    /\ upPc = "streaming"
    /\ CommitReady(body, written)
    /\ uploadsFiles' = uploadsFiles \cup
           {[id |-> BucketFileId, length |-> Len(body)]}
    /\ upPc' = "stored"
    /\ UNCHANGED <<uploadsChunks, body, written, songFileId, rdPc, rdFileId,
                   rdLength, rdN, rdStatus, rdEnded, rdFault, out, delPc,
                   delStatus>>
    /\ UNCHANGED <<serverVars, clientVars, listVars, uiVars>>

\* the upload handler: the Song row with fileId: req.file.id is saved, or
\* the request is answered 400 or 500 and no row is written
LinkSong ==
    /\ upPc = "stored"
    /\ \E saved \in BOOLEAN :
         IF saved
         THEN songFileId' = BucketFileId /\ upPc' = "linked"
         ELSE upPc' = "rejected" /\ UNCHANGED songFileId
    /\ UNCHANGED <<uploadsFiles, uploadsChunks, body, written, rdPc,
                   rdFileId, rdLength, rdN, rdStatus, rdEnded, rdFault, out,
                   delPc, delStatus>>
    /\ UNCHANGED <<serverVars, clientVars, listVars, uiVars>>

\* the stream handler up to res.set(...): Song.findById
FindSong ==
    /\ rdPc = "idle"
    /\ IF songFileId = NoFile
       THEN /\ rdStatus' = 404 /\ rdEnded' = TRUE /\ rdPc' = "done"
            /\ UNCHANGED rdFileId
       ELSE /\ rdFileId' = songFileId /\ rdPc' = "open"
            /\ UNCHANGED <<rdStatus, rdEnded>>
    /\ UNCHANGED <<uploadsFiles, uploadsChunks, body, upPc, written,
                   songFileId, rdLength, rdN, rdFault, out, delPc, delStatus>>
    /\ UNCHANGED <<serverVars, clientVars, listVars, uiVars>>

\* the 'error' listener of the download stream
OnDownloadError ==
    /\ rdFault' = TRUE
    /\ rdPc' = "done"
    /\ IF rdStatus = 0
       THEN rdStatus' = 404 /\ rdEnded' = TRUE
       ELSE UNCHANGED <<rdStatus, rdEnded>>

\* gfs.openDownloadStream(song.fileId): the stream reads the files document
OpenDownload ==
    /\ rdPc = "open"
    /\ \E ioOk \in BOOLEAN :
         IF ioOk /\ \E f \in uploadsFiles : f.id = rdFileId
         THEN /\ rdLength' = (CHOOSE f \in uploadsFiles : f.id = rdFileId).length
              /\ rdPc' = "pipe"
              /\ UNCHANGED <<rdStatus, rdEnded, rdFault>>
         ELSE /\ OnDownloadError
              /\ UNCHANGED rdLength
    /\ UNCHANGED <<uploadsFiles, uploadsChunks, body, upPc, written,
                   songFileId, rdFileId, rdN, out, delPc, delStatus>>
    /\ UNCHANGED <<serverVars, clientVars, listVars, uiVars>>

DeliverFirst(o, d) == d \o o

\* pipe writes a chunk to the response behind what it has written
Deliver(o, d) == o \o d

\* downloadStream.pipe(res): the next chunk is read and written, or the
\* source has pushed its last chunk and pipe ends the response, or the
\* read fails or finds the chunk missing
ReadChunk ==
    /\ rdPc = "pipe"
    /\ IF rdN = ChunkCount(rdLength)
       THEN /\ rdStatus' = 200 /\ rdEnded' = TRUE /\ rdPc' = "done"
            /\ UNCHANGED <<rdN, rdFault, out>>
       ELSE \E ioOk \in BOOLEAN :
              IF ioOk /\ \E c \in ChunksOf(rdFileId) : c.n = rdN
              THEN /\ out' = Deliver(out,
                         (CHOOSE c \in ChunksOf(rdFileId) : c.n = rdN).data)
                   /\ rdN' = rdN + 1
                   /\ rdStatus' = 200
                   /\ UNCHANGED <<rdPc, rdEnded, rdFault>>
              ELSE /\ OnDownloadError
                   /\ UNCHANGED <<rdN, out>>
    /\ UNCHANGED <<uploadsFiles, uploadsChunks, body, upPc, written,
                   songFileId, rdFileId, rdLength, delPc, delStatus>>
    /\ UNCHANGED <<serverVars, clientVars, listVars, uiVars>>

\* the delete handler: Song.findById
DelFind ==
    /\ delPc = "idle"
    /\ IF songFileId = NoFile
       THEN delStatus' = 404 /\ delPc' = "done"
       ELSE delPc' = "files" /\ UNCHANGED delStatus
    /\ UNCHANGED <<uploadsFiles, uploadsChunks, body, upPc, written,
                   songFileId, rdPc, rdFileId, rdLength, rdN, rdStatus,
                   rdEnded, rdFault, out>>
    /\ UNCHANGED <<serverVars, clientVars, listVars, uiVars>>

\* gfs.delete(song.fileId), first half: the files document is removed; a
\* failure is caught and logged
DelFilesDoc ==
    /\ delPc = "files"
    /\ \E ioOk \in BOOLEAN :
         IF ioOk
         THEN /\ uploadsFiles' = {f \in uploadsFiles : f.id # BucketFileId}
              /\ delPc' = "chunks"
         ELSE /\ delPc' = "row"
              /\ UNCHANGED uploadsFiles
    /\ UNCHANGED <<uploadsChunks, body, upPc, written, songFileId, rdPc,
                   rdFileId, rdLength, rdN, rdStatus, rdEnded, rdFault, out,
                   delStatus>>
    /\ UNCHANGED <<serverVars, clientVars, listVars, uiVars>>

\* gfs.delete(song.fileId), second half: the chunks are removed
DelChunks ==
    /\ delPc = "chunks"
    /\ \E ioOk \in BOOLEAN :
         uploadsChunks' = IF ioOk
                          THEN uploadsChunks \ ChunksOf(BucketFileId)
                          ELSE uploadsChunks
    /\ delPc' = "row"
    /\ UNCHANGED <<uploadsFiles, body, upPc, written, songFileId, rdPc,
                   rdFileId, rdLength, rdN, rdStatus, rdEnded, rdFault, out,
                   delStatus>>
    /\ UNCHANGED <<serverVars, clientVars, listVars, uiVars>>

\* Song.findByIdAndDelete and the answer
DelRow ==
    /\ delPc = "row"
    /\ \E dbOk \in BOOLEAN :
         IF dbOk
         THEN songFileId' = NoFile /\ delStatus' = 200
         ELSE delStatus' = 500 /\ UNCHANGED songFileId
    /\ delPc' = "done"
    /\ UNCHANGED <<uploadsFiles, uploadsChunks, body, upPc, written, rdPc,
                   rdFileId, rdLength, rdN, rdStatus, rdEnded, rdFault, out>>
    /\ UNCHANGED <<serverVars, clientVars, listVars, uiVars>>

BucketNext ==
    \/ WriteChunk
    \/ KillUpload
    \/ CommitFile
    \/ LinkSong
    \/ FindSong
    \/ OpenDownload
    \/ ReadChunk
    \/ DelFind
    \/ DelFilesDoc
    \/ DelChunks
    \/ DelRow

BucketSpec == BucketInit /\ [][BucketNext]_vars

\* ---------------------------------------------------------------- page
\* The React page: App, SongList, AudioPlayer and FileUpload, with the
\* server reduced to the set of Song rows and the outcome of each request.
\* A state change and the effects its render triggers are one step.

\* the cleanup of the AudioPlayer effect, when one is in force
EffectCleanup(a) ==
    IF a.listening
    THEN [a EXCEPT !.paused = TRUE, !.listening = FALSE]
    ELSE a

\* the AudioPlayer effect for a new value of currentSong: cleanup of the
\* previous run, then for a song a new Audio element and setLoading(true)
RunEffect(song) ==
    IF song = NoSong
    THEN /\ audioRef' = EffectCleanup(audioRef)
         /\ UNCHANGED loading
    ELSE /\ audioRef' = [song |-> song, paused |-> TRUE, net |-> "loading",
                         listening |-> TRUE]
         /\ loading' = TRUE

\* setCurrentSong(song) and the render that follows; isPlaying is left as
\* it is
SetCurrentSong(song) ==
    /\ currentSong' = song
    /\ IF song = currentSong
       THEN UNCHANGED <<audioRef, loading>>
       ELSE RunEffect(song)

UiInit ==
    /\ ServerAtRest
    /\ seconds = 0 /\ formatted = <<>>
    /\ collection = <<>> /\ query = <<>> /\ result = <<>> /\ listStatus = 0
    /\ BucketAtRest
    /\ currentSong = NoSong /\ shownSongs = {} /\ fetching = TRUE
    /\ pendingDelete = [s \in Tracks |-> NoDelete]
    /\ created \in 0..MaxTracks /\ catalog = 1..created
    /\ isPlaying = FALSE /\ loading = FALSE /\ audioRef = NoAudio
    /\ uploading = FALSE /\ uploadStatus = "" /\ timers = 0 /\ clicks = 0

\* SongList.fetchSongs settles: the list is replaced, or the error is logged
FetchSongs ==
    /\ fetching
    /\ fetching' = FALSE
    /\ \E ok \in BOOLEAN :
         shownSongs' = IF ok THEN catalog ELSE shownSongs
    /\ UNCHANGED <<currentSong, pendingDelete, catalog, created, isPlaying,
                   loading, audioRef, uploading, uploadStatus, timers, clicks>>
    /\ UNCHANGED <<serverVars, clientVars, listVars, bucketVars>>

\* a click on the card of another song: App.handleSongSelect
SelectSong(s) ==
    /\ clicks < MaxClicks
    /\ s \in shownSongs /\ s # currentSong
    /\ clicks' = clicks + 1
    /\ SetCurrentSong(s)
    /\ UNCHANGED <<shownSongs, fetching, pendingDelete, catalog, created,
                   isPlaying, uploading, uploadStatus, timers>>
    /\ UNCHANGED <<serverVars, clientVars, listVars, bucketVars>>

\* a click on the play button, which is disabled while loading
TogglePlayPause ==
    /\ clicks < MaxClicks
    /\ currentSong # NoSong /\ ~loading
    /\ audioRef # NoAudio
    /\ clicks' = clicks + 1
    /\ IF isPlaying
       THEN /\ audioRef' = [audioRef EXCEPT !.paused = TRUE]
            /\ isPlaying' = FALSE
       ELSE /\ audioRef' = [audioRef EXCEPT
                               !.paused = IF audioRef.net = "ready"
                                          THEN FALSE ELSE @]
            /\ isPlaying' = TRUE
    /\ UNCHANGED <<currentSong, shownSongs, fetching, pendingDelete, catalog,
                   created, loading, uploading, uploadStatus, timers>>
    /\ UNCHANGED <<serverVars, clientVars, listVars, bucketVars>>

\* the element has its metadata: handleLoadedMetadata, when still attached
AudioLoaded ==
    /\ audioRef.net = "loading"
    /\ audioRef' = [audioRef EXCEPT !.net = "ready"]
    /\ loading' = IF audioRef.listening THEN FALSE ELSE loading
    /\ UNCHANGED <<currentSong, shownSongs, fetching, pendingDelete, catalog,
                   created, isPlaying, uploading, uploadStatus, timers, clicks>>
    /\ UNCHANGED <<serverVars, clientVars, listVars, bucketVars>>

\* the audio request is answered with an error, or the network fails: the
\* element fires 'error', for which no listener is attached
AudioError ==
    /\ audioRef.net = "loading"
    /\ audioRef' = [audioRef EXCEPT !.net = "error"]
    /\ UNCHANGED <<currentSong, shownSongs, fetching, pendingDelete, catalog,
                   created, isPlaying, loading, uploading, uploadStatus,
                   timers, clicks>>
    /\ UNCHANGED <<serverVars, clientVars, listVars, bucketVars>>

\* playback reaches the end: handleEnded
AudioEnded ==
    /\ ~audioRef.paused
    /\ audioRef' = [audioRef EXCEPT !.paused = TRUE]
    /\ isPlaying' = IF audioRef.listening THEN FALSE ELSE isPlaying
    /\ UNCHANGED <<currentSong, shownSongs, fetching, pendingDelete, catalog,
                   created, loading, uploading, uploadStatus, timers, clicks>>
    /\ UNCHANGED <<serverVars, clientVars, listVars, bucketVars>>

\* a confirmed click on the delete button of a card: SongList.handleDelete
\* up to its await; the call keeps the songs and the onSongDelete (with its
\* currentSong) of the render the click was made in
ClickDelete(s) ==
    /\ clicks < MaxClicks
    /\ s \in shownSongs /\ ~pendingDelete[s].inFlight
    /\ clicks' = clicks + 1
    /\ pendingDelete' = [pendingDelete EXCEPT ![s] =
           [songs |-> shownSongs, current |-> currentSong, inFlight |-> TRUE]]
    /\ UNCHANGED <<currentSong, shownSongs, fetching, catalog, created,
                   isPlaying, loading, audioRef, uploading, uploadStatus,
                   timers>>
    /\ UNCHANGED <<serverVars, clientVars, listVars, bucketVars>>

\* App.handleSongDelete as the call in flight holds it
HandleSongDelete(held, deletedSongId) ==
    IF held # NoSong /\ held = deletedSongId
    THEN SetCurrentSong(NoSong)
    ELSE UNCHANGED <<currentSong, audioRef, loading>>

\* the DELETE request settles and handleDelete resumes
DeleteResponse(s) ==
    /\ pendingDelete[s].inFlight
    /\ pendingDelete' = [pendingDelete EXCEPT ![s] = NoDelete]
    /\ \E netOk \in BOOLEAN :
         IF netOk /\ s \in catalog
         THEN /\ catalog' = catalog \ {s}
              /\ shownSongs' = pendingDelete[s].songs \ {s}
              /\ HandleSongDelete(pendingDelete[s].current, s)
         ELSE UNCHANGED <<catalog, shownSongs, currentSong, audioRef, loading>>
    /\ UNCHANGED <<fetching, created, isPlaying, uploading, uploadStatus,
                   timers, clicks>>
    /\ UNCHANGED <<serverVars, clientVars, listVars, bucketVars>>

\* FileUpload.handleSubmit up to its await; the button is disabled while
\* uploading
Submit ==
    /\ clicks < MaxClicks
    /\ ~uploading
    /\ clicks' = clicks + 1
    /\ \E filled \in BOOLEAN :
         IF filled
         THEN uploading' = TRUE /\ uploadStatus' = ""
         ELSE uploadStatus' = "required" /\ UNCHANGED uploading
    /\ UNCHANGED <<currentSong, shownSongs, fetching, pendingDelete, catalog,
                   created, isPlaying, loading, audioRef, timers>>
    /\ UNCHANGED <<serverVars, clientVars, listVars, bucketVars>>

\* the POST settles and handleSubmit resumes: try or catch, then finally
UploadResponse ==
    /\ uploading
    /\ uploading' = FALSE
    /\ \E ok \in BOOLEAN :
         IF ok /\ created < MaxTracks
         THEN /\ created' = created + 1
              /\ catalog' = catalog \cup {created + 1}
              /\ uploadStatus' = "successful"
              /\ fetching' = TRUE
              /\ timers' = timers + 1
         ELSE /\ uploadStatus' = "failed"
              /\ UNCHANGED <<created, catalog, fetching, timers>>
    /\ UNCHANGED <<currentSong, shownSongs, pendingDelete, isPlaying, loading,
                   audioRef, clicks>>
    /\ UNCHANGED <<serverVars, clientVars, listVars, bucketVars>>

\* setTimeout(() => setStatus(''), 3000) fires
StatusTimeout ==
    /\ timers > 0
    /\ timers' = timers - 1
    /\ uploadStatus' = ""
    /\ UNCHANGED <<currentSong, shownSongs, fetching, pendingDelete, catalog,
                   created, isPlaying, loading, audioRef, uploading, clicks>>
    /\ UNCHANGED <<serverVars, clientVars, listVars, bucketVars>>

\* what the page does by itself: requests settle, media events and timers
\* fire
UiSettles ==
    \/ FetchSongs
    \/ AudioLoaded
    \/ AudioError
    \/ AudioEnded
    \/ \E s \in Tracks : DeleteResponse(s)
    \/ UploadResponse
    \/ StatusTimeout

UiNext ==
    \/ \E s \in Tracks : SelectSong(s)
    \/ TogglePlayPause
    \/ \E s \in Tracks : ClickDelete(s)
    \/ Submit
    \/ UiSettles

UiSpec == UiInit /\ [][UiNext]_vars

\* every request settles, every loading element fires loadedmetadata or
\* error, every armed timer fires; the user is free to stop
UiFairSpec ==
    /\ UiSpec
    /\ WF_vars(FetchSongs)
    /\ WF_vars(AudioLoaded \/ AudioError)
    /\ WF_vars(\E s \in Tracks : DeleteResponse(s))
    /\ WF_vars(UploadResponse)
    /\ WF_vars(StatusTimeout)

\* ======================================================== properties
Uploads == {r \in Reqs : kind[r] = "upload"}
Deletes == {r \in Reqs : kind[r] = "delete"}
Streams == {r \in Reqs : kind[r] = "stream"}
Done(r) == pc[r] = "done"

\* the object and the row an upload request may have created
ObjectOf(r) == file[r] # NoFile /\ file[r] \in files
RowOf(r) == \E s \in songs : s.id = NewSongId(r)

\* no delete request has been aimed at the song of upload r
Untouched(r) == \A d \in Deletes : param[d] # NewSongId(r)

\* the failures the spec counts as validation failures of an upload
ValidationFaults == {"nofile", "filter", "limit", "fields"}
\* the failures of the Song insert
InsertFaults == {"dup", "catalog", "invalid"}

\* C1: an upload rejected in validation (no file, non-audio type, file over
\* the size ceiling, title/artist/duration absent or empty) leaves no new
\* object in the bucket and no new Song row.
C1_IngestAtomicOnValidationFailure ==
    \A r \in Uploads :
        Done(r) /\ fault[r] \cap ValidationFaults # {}
            => ~ObjectOf(r) /\ ~RowOf(r)

\* C2: when the Song insert fails after the object was committed, the
\* object is deleted before the error is answered: after the error response
\* the bucket does not hold it.
C2_RollbackAfterCommit ==
    \A r \in Uploads :
        Done(r) /\ fault[r] \cap InsertFaults # {} => ~ObjectOf(r)

\* C3: in every reachable state every Song row with a fileId references an
\* object that exists in the bucket.
C3_ReferenceInvariant ==
    \A s \in songs : s.fileId # NoFile => s.fileId \in files

\* C4: an upload ends with exactly one new row and one new object, the
\* row's fileId being that object, or with neither (stated for uploads whose
\* song no delete request was aimed at).
C4_UploadAllOrNothing ==
    \A r \in Uploads :
        Done(r) /\ Untouched(r) =>
            \/ /\ ObjectOf(r)
               /\ \E s \in songs : s.id = NewSongId(r) /\ s.fileId = file[r]
            \/ ~ObjectOf(r) /\ ~RowOf(r)

\* C5: a delete reaches the removal of the row only after it has tried the
\* bucket delete of the song's object; when that bucket delete failed and
\* the removal of the row did not, the request is answered 200 and the row
\* is gone.
C5_DeleteIsBestEffortOnStorage ==
    \A d \in Deletes :
        /\ pc[d] = "rowdel" /\ doc[d].fileId # NoFile
              => "gfs" \in fault[d] \/ doc[d].fileId \notin files
        /\ Done(d) /\ "gfs" \in fault[d] /\ "catalog" \notin fault[d]
              => /\ status[d] = 200
                 /\ ended[d]
                 /\ findById(songs, param[d]) = {}

\* a delete whose bucket delete failed has been answered 200, its row gone
C5_Witness ==
    \E d \in Deletes :
        /\ Done(d) /\ "gfs" \in fault[d] /\ status[d] = 200
        /\ findById(songs, param[d]) = {}

NoSharedFile ==
    \A s, t \in songs : s.fileId = t.fileId /\ s.fileId # NoFile => s = t

OnlyDeleteRemoves ==
    \A o \in files \ files' :
        \E d \in Deletes :
            /\ pc[d] = "gfsdel" /\ pc'[d] = "rowdel"
            /\ doc[d].id = param[d]
            /\ doc[d].fileId = o

\* C6: no two Song rows ever have the same fileId, and every step that
\* removes an object from the bucket is the bucket delete of a delete
\* request on the song that references the object.
C6_ExclusiveOwnership == []NoSharedFile /\ [][OnlyDeleteRemoves]_vars

\* two songs hold two different objects and a delete request has removed
\* the object of the song it deletes
C6_Witness ==
    /\ \E d \in Deletes :
         /\ pc[d] = "rowdel" /\ "gfs" \notin fault[d]
         /\ doc[d].fileId # NoFile /\ doc[d].fileId \notin files
    /\ Cardinality({s.fileId : s \in songs} \ {NoFile}) = 2

\* C7: no two Song rows ever have the same short code, and an upload whose
\* code is already taken is answered 400 and adds no row.
C7_ShortCodeUnique ==
    /\ \A s, t \in songs : s.songcode = t.songcode => s = t
    /\ \A r \in Uploads :
         "dup" \in fault[r] => status[r] = 400 /\ ended[r] /\ ~RowOf(r)

\* of two uploads one has been answered 200 and the other rejected for its
\* short code
C7_Witness ==
    \E r, q \in Uploads :
        /\ r # q
        /\ status[q] = 200 /\ RowOf(q)
        /\ "dup" \in fault[r] /\ status[r] = 400

\* C8 as claimed: the duplicate-code Conflict is surfaced only after the
\* code was regenerated and the insert tried again.
C8_RetriesBeforeConflict ==
    \A r \in Uploads : "dup" \in fault[r] => attempts[r] >= 2

\* C8 as amended: an upload tries the Song insert once; on a short-code
\* conflict it answers the duplicate-code 400 after that single attempt and
\* adds no row.
C8_NoRetryOnConflict ==
    \A r \in Uploads :
        /\ attempts[r] <= 1
        /\ "dup" \in fault[r] =>
              /\ attempts[r] = 1
              /\ Done(r) /\ status[r] = 400
              /\ ~RowOf(r)

\* an upload has been rejected for its short code while another code was
\* still free
C8_Witness ==
    \E r \in Uploads :
        /\ "dup" \in fault[r] /\ attempts[r] = 1
        /\ \E c \in Codes : \A s \in songs : s.songcode # c

\* C9: a stream request with a malformed id is answered 400; one whose song
\* does not exist or has no fileId, or whose object cannot be opened, is
\* answered 404; in each case no audio chunk was written and no 200 started.
C9_StreamFailsBeforeFirstByte ==
    \A r \in Streams :
        /\ "badid" \in fault[r] => status[r] = 400 /\ ended[r] /\ sent[r] = 0
        /\ "nosong" \in fault[r] => status[r] = 404 /\ ended[r] /\ sent[r] = 0
        /\ "open" \in fault[r] => status[r] = 404 /\ ended[r] /\ sent[r] = 0

\* a stream request found its song but could not open the object
C9_Witness ==
    \E r \in Streams : "open" \in fault[r] /\ status[r] = 404

\* C10: after a read failure that follows the first bytes, no error status
\* is written and the response is ended.
C10_MidStreamFailureEndsResponse ==
    \A r \in Streams :
        Done(r) /\ "midstream" \in fault[r] => status[r] = 200 /\ ended[r]

\* C15 as claimed: an upload whose file part is not of an audio type is
\* answered 400, as is one with title, artist or duration missing and one
\* whose short code is taken; 500 is left to the other failures.
C15_UploadFailureStatuses ==
    \A r \in Uploads :
        Done(r) =>
            /\ "filter" \in fault[r] => status[r] = 400
            /\ "fields" \in fault[r] => status[r] = 400
            /\ "dup" \in fault[r] => status[r] = 400
            /\ status[r] = 500 => fault[r] \cap {"filter", "fields", "dup"} = {}

\* C16 as claimed: every row an upload inserted has a non-empty title and
\* artist, a duration that is a positive integer and a non-empty album.
C16_SongFieldInvariant ==
    \A s \in songs :
        s.id \in Reqs =>
            /\ s.title # "" /\ s.artist # "" /\ s.album # ""
            /\ ~s.duration.nan /\ s.duration.v > 0

DeleteRejected(d) ==
    /\ kind[d] = "delete" /\ pc[d] = "find" /\ pc'[d] = "done"
    /\ "catalog" \notin fault'[d]

\* C17: a delete request with a malformed id is answered 400, one whose
\* id resolves to no Song is answered 404, and the step that answers so
\* leaves the Song collection and the bucket as they were.
C17_DeleteErrorsLeaveStateUnchanged ==
    [][\A d \in Reqs :
          DeleteRejected(d) =>
              /\ param[d] = BadId => status'[d] = 400
              /\ param[d] # BadId /\ findById(songs, param[d]) = {}
                    => status'[d] = 404
              /\ status'[d] \in {400, 404}
              /\ ended'[d]
              /\ songs' = songs /\ files' = files]_vars

\* a delete of an id that resolves to no Song has been answered 404 while
\* the collection holds a row and the bucket an object
C17_Witness ==
    /\ \E d \in Deletes : Done(d) /\ status[d] = 404 /\ param[d] # BadId
    /\ songs # {} /\ files # {}

\* the object of the song with the given id
FileOfSong(id) == IF id = LegacyId THEN LegacyFile ELSE NewFileId(id)

\* two delete requests for the same song, both answered, neither hit by a
\* storage or catalog failure, the song having been found by one at least
SameSongDeleted(d, e) ==
    /\ d # e /\ param[d] = param[e] /\ param[d] # BadId
    /\ Done(d) /\ Done(e)
    /\ (fault[d] \cup fault[e]) \cap {"io", "catalog"} = {}
    /\ status[d] = 200 \/ status[e] = 200

DeleteTouchesOnlyItsSong ==
    /\ \A s \in songs \ songs' :
          \E d \in Deletes : pc[d] = "rowdel" /\ pc'[d] = "done"
                                /\ s.id = param[d]
    /\ \A o \in files \ files' :
          \E d \in Deletes : pc[d] = "gfsdel" /\ pc'[d] = "rowdel"
                                /\ o = FileOfSong(param[d])

\* C19: whatever the interleaving of two delete requests for the same
\* existing song, both are answered 200 or 404, never 500; afterwards
\* neither the row nor its object exists; and a step of a delete request
\* removes no row and no object but those of its own song.
C19_ConcurrentDeletes ==
    /\ [](\A d, e \in Deletes :
            SameSongDeleted(d, e) =>
                /\ status[d] \in {200, 404} /\ status[e] \in {200, 404}
                /\ findById(songs, param[d]) = {}
                /\ FileOfSong(param[d]) \notin files)
    /\ [][DeleteTouchesOnlyItsSong]_vars

\* two interleaved deletes of one song: the second bucket delete found no
\* object, both were answered 200
C19_Witness ==
    \E d, e \in Deletes :
        /\ SameSongDeleted(d, e)
        /\ status[d] = 200 /\ status[e] = 200
        /\ "gfs" \in fault[e] /\ "gfs" \notin fault[d]

\* C20 as claimed: every request whose handler has run to its end has had
\* one response started and that response completed.
C20_EveryRequestAnswered ==
    \A r \in Reqs : Done(r) => status[r] # 0 /\ ended[r]

AllDigits(str) == \A i \in 1..Len(str) : IsDigit(str[i])

\* C18: for every non-negative integer number of seconds, formatDuration
\* returns the decimal floor(s/60), a colon, and s mod 60 written with
\* exactly two digits; 65 gives "1:05" and 59 gives "0:59".
C18_DurationFormat ==
    formatted # <<>> =>
        /\ \E k \in 2..Len(formatted) :
              LET mins == SubSeq(formatted, 1, k - 1)
                  rest == SubSeq(formatted, k + 1, Len(formatted))
              IN  /\ formatted[k] = ":"
                  /\ AllDigits(mins) /\ AllDigits(rest)
                  /\ Len(mins) > 1 => mins[1] # "0"
                  /\ Len(rest) = 2
                  /\ ParseDigits(mins, 1, 0) * 60 + ParseDigits(rest, 1, 0)
                        = seconds
                  /\ ParseDigits(rest, 1, 0) < 60
        /\ seconds = 65 => formatted = <<"1", ":", "0", "5">>
        /\ seconds = 59 => formatted = <<"0", ":", "5", "9">>

\* 65 seconds have been rendered as "1:05"
C18_Witness == seconds = 65 /\ formatted = <<"1", ":", "0", "5">>

\* str contains sub, compared case-insensitively character by character
ContainsIgnoreCase(str, sub) ==
    \E k \in 0..(Len(str) - Len(sub)) :
        \A i \in 1..Len(sub) : Fold(sub[i]) = Fold(str[k + i])

Answered == {result[i] : i \in DOMAIN result}

\* C13 as claimed: a list answered 200 holds exactly the documents of which
\* the search string is a case-insensitive literal substring of the title,
\* the artist or the album, and every document when there is no search
\* string.
C13_SearchIsLiteralSubstring ==
    listStatus = 200 =>
        Answered = {i \in DOMAIN collection :
                      \/ query = <<>>
                      \/ ContainsIgnoreCase(collection[i].title, query)
                      \/ ContainsIgnoreCase(collection[i].artist, query)
                      \/ ContainsIgnoreCase(collection[i].album, query)}

\* C14 as claimed: a list answered 200 is ordered by createdAt descending
\* and documents with equal createdAt appear in insertion order.
C14_ListOrdering ==
    listStatus = 200 =>
        \A i, j \in DOMAIN result :
            i < j =>
                \/ collection[result[i]].createdAt
                      > collection[result[j]].createdAt
                \/ /\ collection[result[i]].createdAt
                        = collection[result[j]].createdAt
                   /\ result[i] < result[j]

\* the chunks of every object with a files document are numbered 0, 1, ...
\* without gap or repeat and hold as many bytes as the document declares
ChunksComplete(f) ==
    LET cs == ChunksOf(f.id)
        ns == {c.n : c \in cs}
    IN  /\ Cardinality(cs) = Cardinality(ns)
        /\ ns = 0..(Cardinality(ns) - 1)
        /\ Cardinality(UNION {{<<c.n, i>> : i \in 1..Len(c.data)} : c \in cs})
             = f.length

\* C11: in every state, also while the upload is streaming or after it was
\* killed mid-stream, every object that can be opened has contiguous chunks
\* from 0 whose lengths sum to the declared length, and while the upload
\* has not completed a stream request is answered not found with no byte
C11_NoPartialVisibility ==
    /\ \A f \in uploadsFiles : ChunksComplete(f)
    /\ upPc \in {"streaming", "killed"} =>
         /\ uploadsFiles = {}
         /\ rdPc \in {"idle", "done"}
         /\ rdPc = "done" => rdStatus = 404 /\ rdEnded /\ out = <<>>

\* an upload killed between two chunks has left a chunk behind, and the
\* stream request made afterwards was answered not found
C11_Witness ==
    /\ upPc = "killed"
    /\ 0 < written /\ written < ChunkCount(Len(body))
    /\ ChunksOf(BucketFileId) # {}
    /\ rdPc = "done" /\ rdStatus = 404

\* the delete request has found the Song
Intervened == delPc \in {"files", "chunks", "row"} \/ delStatus \in {200, 500}

IsPrefix(p, q) == Len(p) <= Len(q) /\ SubSeq(q, 1, Len(p)) = p

\* C12: a stream request that found the Song of an accepted upload of the
\* bytes B, with no delete of it and no storage failure, has written a
\* prefix of B from byte 0 while it runs and exactly B once it is done
C12_RoundTrip ==
    (rdFileId # NoFile /\ ~Intervened /\ ~rdFault) =>
        /\ IsPrefix(out, body)
        /\ rdPc = "done" => out = body /\ rdStatus = 200 /\ rdEnded

\* a file of more than one chunk, the last one short, was streamed to its
\* end with no delete and no failure
C12_Witness ==
    /\ rdPc = "done" /\ rdFileId # NoFile /\ ~Intervened /\ ~rdFault
    /\ Len(body) > ChunkSizeBytes
    /\ out = body

\* a step taken before the handle exists leaves the Song collection alone
NoRowRemovedBeforeOpen == ~gfs => songs' = songs

\* C21: a stream or delete request that is about to call, or has called,
\* gfs.openDownloadStream or gfs.delete finds the handle initialised, none
\* has failed on an undefined handle, and no step taken before the 'open'
\* event removes a Song row
C21_HandleInitialised ==
    /\ [](\A r \in Reqs :
            /\ pc[r] \in {"gfsdel", "rowdel", "open", "pipe"} => gfs
            /\ "nogfs" \notin fault[r]
            /\ (kind[r] = "delete" /\ status[r] = 200) => gfs)
    /\ [][NoRowRemovedBeforeOpen]_vars

\* a delete of a stored song was handled to its end before the 'open'
\* event: the row and its object are both still there
C21_Witness ==
    /\ ~gfs
    /\ \E d \in Deletes :
         /\ Done(d) /\ param[d] = LegacyId
         /\ \E s \in findById(songs, LegacyId) : s.fileId \in files

\* the audio element of the selected song is playing
AudioPlaying == audioRef.song = currentSong /\ ~audioRef.paused

\* C22 as claimed: whatever songs were selected and however often play/pause
\* was toggled, isPlaying is true exactly when the audio element of the
\* selected song is playing.
C22_PlayerStateConsistent ==
    currentSong # NoSong => (isPlaying <=> AudioPlaying)

\* a step in which the DELETE request for song s settles
DeleteSettled(s) == pendingDelete[s].inFlight /\ ~pendingDelete'[s].inFlight
\* ... and has removed the row
DeleteSucceeded(s) == DeleteSettled(s) /\ s \in catalog /\ s \notin catalog'

DeleteClearsOnlySelected(s) ==
    DeleteSettled(s) =>
        IF DeleteSucceeded(s)
        THEN currentSong' = IF currentSong = s THEN NoSong ELSE currentSong
        ELSE shownSongs' = shownSongs /\ currentSong' = currentSong

\* C23 as claimed: when a delete from the song list succeeds, currentSong
\* becomes null if it is the deleted song and is unchanged otherwise; when
\* it fails, neither the displayed list nor currentSong changes.
C23_DeleteClearsSelected ==
    [][\A s \in Tracks : DeleteClearsOnlySelected(s)]_vars

\* C24 as claimed: once set, the uploading flag returns to false, and the
\* loading flag of the player shown for a selected song returns to false
\* (or the player goes away), also when the audio request fails.
C24_BusyFlagsClear ==
    /\ uploading ~> ~uploading
    /\ (currentSong # NoSong /\ loading) ~> (currentSong = NoSong \/ ~loading)

=============================================================================
